---- MODULE Spec2Model ----
(***************************************************************************)
(* Model of disc/utils/tools.py: the ParamDict arithmetic (a dictionary of *)
(* tensors with +, -, *, / and unary minus), the AverageMeter and the      *)
(* get_scheduler factory.                                                  *)
(*                                                                         *)
(* Tensor values are single-element float32 tensors (the default dtype of  *)
(* model weights).  A float32 is modelled exactly: sign, odd mantissa and  *)
(* binary exponent, with round-to-nearest-even to 24 significant bits,     *)
(* subnormals, overflow to infinity and NaN.  All intermediate integers    *)
(* stay below 2^31.                                                        *)
(***************************************************************************)
EXTENDS Integers, Sequences, FiniteSets, TLC

(***************************************************************************)
(* float32 arithmetic (torch.Tensor elementwise +, -, *, /, unary -)       *)
(***************************************************************************)

\* float32 format: 24 significant bits, largest finite value below 2^128,
\* smallest subnormal 2^-149.
Precision == 24
MaxExp == 128
MinQuantum == 0 - 149

RECURSIVE Pow2(_)
Pow2(n) == IF n = 0 THEN 1 ELSE 2 * Pow2(n - 1)

RECURSIVE BitLen(_)
BitLen(n) == IF n = 0 THEN 0 ELSE 1 + BitLen(n \div 2)

Max(a, b) == IF a >= b THEN a ELSE b

\* the float32 values
FZero(s) == [k |-> "fin", s |-> s, m |-> 0, e |-> 0]
FInf(s) == [k |-> "inf", s |-> s, m |-> 0, e |-> 0]
FNaN == [k |-> "nan", s |-> 0, m |-> 0, e |-> 0]

\* the finite value (-1)^s * m * 2^e in canonical form (m odd, or zero)
RECURSIVE Canon(_, _, _)
Canon(s, m, e) ==
    IF m = 0 THEN FZero(s)
    ELSE IF m % 2 = 0 THEN Canon(s, m \div 2, e + 1)
    ELSE [k |-> "fin", s |-> s, m |-> m, e |-> e]

\* the float32 of a Python int (exact for |n| < 2^24)
F(n) == IF n < 0 THEN Canon(1, 0 - n, 0) ELSE Canon(0, n, 0)

IsZero(x) == x.k = "fin" /\ x.m = 0
IsFinite(x) == x.k = "fin"

\* Rounding of the exact value (-1)^s * (T + d) * 2^e, where d = 0 unless
\* sticky and 0 < d < 1 if sticky, to the nearest float32, ties to even.
\* When sticky, T carries at least Precision + 2 bits.
RoundFin(s, T, e, sticky) ==
    IF T = 0 /\ ~sticky THEN FZero(s)
    ELSE
      LET E == BitLen(T) + e
          q == Max(E - Precision, MinQuantum)
          sh == q - e
      IN IF sh <= 0
         THEN IF E > MaxExp THEN FInf(s) ELSE Canon(s, T, e)
         ELSE IF sh > BitLen(T) THEN FZero(s)
         ELSE
           LET half == Pow2(sh - 1)
               base == IF sh = BitLen(T) THEN 0 ELSE T \div (2 * half)
               rem == T - base * 2 * half
               up == \/ rem > half
                     \/ rem = half /\ sticky
                     \/ rem = half /\ ~sticky /\ base % 2 = 1
               R == IF up THEN base + 1 ELSE base
           IN IF R = 0 THEN FZero(s)
              ELSE IF BitLen(R) + q > MaxExp THEN FInf(s)
              ELSE Canon(s, R, q)

\* operator.neg on a tensor: flips the sign bit
FNeg(x) == IF x.k = "nan" THEN FNaN ELSE [x EXCEPT !.s = 1 - x.s]

\* sum of two finite non-zero values
AddFin(x, y) ==
    LET Ex == BitLen(x.m) + x.e
        Ey == BitLen(y.m) + y.e
        big == IF Ex >= Ey THEN x ELSE y
        sml == IF Ex >= Ey THEN y ELSE x
        Eb == BitLen(big.m) + big.e
        Es == BitLen(sml.m) + sml.e
    IN IF Eb - Es >= Precision + 2 THEN big
       ELSE
         LET eb == Eb - 29
             Tb == big.m * Pow2(29 - BitLen(big.m))
             k == eb - sml.e
             Ts == IF k <= 0 THEN sml.m * Pow2(0 - k) ELSE sml.m \div Pow2(k)
             sticky == k > 0 /\ sml.m % Pow2(k) # 0
         IN IF big.s = sml.s
            THEN RoundFin(big.s, Tb + Ts, eb, sticky)
            ELSE LET D == Tb - Ts - (IF sticky THEN 1 ELSE 0)
                 IN IF D = 0 /\ ~sticky THEN FZero(0)
                    ELSE IF D < 0 THEN RoundFin(sml.s, 0 - D, eb, FALSE)
                    ELSE RoundFin(big.s, D, eb, sticky)

\* operator.add on two tensors
FAdd(x, y) ==
    IF x.k = "nan" \/ y.k = "nan" THEN FNaN
    ELSE IF x.k = "inf" /\ y.k = "inf"
         THEN IF x.s = y.s THEN x ELSE FNaN
    ELSE IF x.k = "inf" THEN x
    ELSE IF y.k = "inf" THEN y
    ELSE IF IsZero(x) /\ IsZero(y)
         THEN FZero(IF x.s = 1 /\ y.s = 1 THEN 1 ELSE 0)
    ELSE IF IsZero(x) THEN y
    ELSE IF IsZero(y) THEN x
    ELSE AddFin(x, y)

\* product of two finite non-zero values
MulFin(x, y) ==
    LET s == (x.s + y.s) % 2
    IN IF BitLen(x.m) + BitLen(y.m) <= 30
       THEN RoundFin(s, x.m * y.m, x.e + y.e, FALSE)
       ELSE
         LET a1 == x.m \div 4096
             a0 == x.m % 4096
             b1 == y.m \div 4096
             b0 == y.m % 4096
             mid == a1 * b0 + a0 * b1 + ((a0 * b0) \div 4096)
             Hi == a1 * b1 + (mid \div 4096)
             Lo == (mid % 4096) * 4096 + ((a0 * b0) % 4096)
             c == BitLen(Hi) + 24 - 29
             T == Hi * Pow2(24 - c) + (Lo \div Pow2(c))
         IN RoundFin(s, T, x.e + y.e + c, Lo % Pow2(c) # 0)

\* operator.mul on two tensors
FMul(x, y) ==
    LET s == (x.s + y.s) % 2
    IN IF x.k = "nan" \/ y.k = "nan" THEN FNaN
       ELSE IF x.k = "inf" \/ y.k = "inf"
            THEN IF IsZero(x) \/ IsZero(y) THEN FNaN ELSE FInf(s)
       ELSE IF IsZero(x) \/ IsZero(y) THEN FZero(s)
       ELSE MulFin(x, y)

\* n more base-64 digits of the quotient r / d; <<digits, remainder>>
RECURSIVE LongDiv(_, _, _, _)
LongDiv(q, r, d, n) ==
    IF n = 0 THEN <<q, r>>
    ELSE LongDiv(q * 64 + ((r * 64) \div d), (r * 64) % d, d, n - 1)

\* quotient of two finite non-zero values
DivFin(x, y) ==
    LET s == (x.s + y.s) % 2
        sx == Precision - BitLen(x.m)
        sy == Precision - BitLen(y.m)
        Mx == x.m * Pow2(sx)
        My == y.m * Pow2(sy)
        qr == LongDiv(Mx \div My, Mx % My, My, 5)
    IN RoundFin(s, qr[1], (x.e - sx) - (y.e - sy) - 30, qr[2] # 0)

\* operator.truediv on two tensors
FDiv(x, y) ==
    LET s == (x.s + y.s) % 2
    IN IF x.k = "nan" \/ y.k = "nan" THEN FNaN
       ELSE IF x.k = "inf"
            THEN IF y.k = "inf" THEN FNaN ELSE FInf(s)
       ELSE IF y.k = "inf" THEN FZero(s)
       ELSE IF IsZero(y)
            THEN IF IsZero(x) THEN FNaN ELSE FInf(s)
       ELSE IF IsZero(x) THEN FZero(s)
       ELSE DivFin(x, y)

\* numeric equality of tensor values (==): -0.0 equals 0.0, NaN equals nothing
FEq(x, y) ==
    /\ x.k # "nan"
    /\ y.k # "nan"
    /\ \/ x = y
       \/ IsZero(x) /\ IsZero(y)

(***************************************************************************)
(* ParamDict: an OrderedDict of tensors                                    *)
(***************************************************************************)

\* at most this many arithmetic calls are made in one behaviour
MaxCalls == 2

VARIABLES
    heap,    \* the ParamDict instances created so far, by identity (index)
    made,    \* for each instance, the call that constructed it
    ncalls,  \* number of arithmetic calls made
    call,    \* the most recent call: operation, operands and outcome
    val, avg, sum, count,  \* the fields of one AverageMeter
    hist,    \* the update(val, n) calls since the last reset
    meter_exc,  \* the exception the last AverageMeter call raised
    sched_args, \* the arguments of the last get_scheduler call
    scheduler   \* what the last get_scheduler call returned

pdvars == <<heap, made, ncalls, call>>
metervars == <<val, avg, sum, count, hist, meter_exc>>
schedvars == <<sched_args, scheduler>>
vars == <<heap, made, ncalls, call, val, avg, sum, count, hist, meter_exc,
          sched_args, scheduler>>

\* a tensor: its float32 value and the device that holds it
Tensor(v, dev) == [v |-> v, dev |-> dev]

\* Tensor.cpu(): the same value, host-resident
Cpu(t) == [t EXCEPT !.dev = "cpu"]

\* the binary operators of the operator module, on float32 values
ApplyOp(op, x, y) ==
    CASE op = "add" -> FAdd(x, y)
      [] op = "mul" -> FMul(x, y)
      [] op = "truediv" -> FDiv(x, y)

\* op(a, b) on two tensors of one device: the result lives on that device
TensorOp(op, a, b) == Tensor(ApplyOp(op, a.v, b.v), a.dev)

\* op(a, s) on a tensor and a Python number: the result lives on a's device
TensorScalarOp(op, a, s) == Tensor(ApplyOp(op, a.v, s), a.dev)

\* -t on a tensor: same device
TensorNeg(t) == Tensor(FNeg(t.v), t.dev)

\* the operand `other` of a call
MapArg(i) == [kind |-> "map", id |-> i, v |-> FZero(0)]
IntArg(n) == [kind |-> "int", id |-> 0, v |-> F(n)]
FloatArg(x) == [kind |-> "float", id |-> 0, v |-> x]
StrArg == [kind |-> "str", id |-> 0, v |-> FZero(0)]
TensorArg(x) == [kind |-> "tensor", id |-> 0, v |-> x]
NoArg == [kind |-> "none", id |-> 0, v |-> FZero(0)]

\* isinstance(other, Number): Python int and float
IsNumber(other) == other.kind \in {"int", "float"}
\* isinstance(other, dict): a ParamDict
IsDict(other) == other.kind = "map"

KeySet(d) == {d.keys[i] : i \in 1..Len(d.keys)}

\* ParamDict({k: f[k] for k in keys}): a new instance, keys in iteration order
ParamDict(keys, f) == [keys |-> keys, item |-> f]

\* the outcome of a call: the heap after it, the exception raised ("none" if
\* it returned) and the identity of the instance returned
Returned(h, d) == [heap |-> Append(h, d), exc |-> "none", id |-> Len(h) + 1]
Raised(h, exc) == [heap |-> h, exc |-> exc, id |-> 0]

\* a _prototype that updates self in place and returns it
_prototypeInPlace(h, self, other, op) ==
    LET d == h[self]
    IN IF IsNumber(other)
       THEN [heap |-> [h EXCEPT ![self] = ParamDict(d.keys,
                [k \in KeySet(d) |-> Cpu(TensorScalarOp(op, d.item[k], other.v))])],
             exc |-> "none", id |-> self]
       ELSE IF IsDict(other)
       THEN LET o == h[other.id]
            IN IF \E k \in KeySet(d) : k \notin KeySet(o)
               THEN Raised(h, "KeyError")
               ELSE [heap |-> [h EXCEPT ![self] = ParamDict(d.keys,
                        [k \in KeySet(d) |->
                            TensorOp(op, Cpu(d.item[k]), Cpu(o.item[k]))])],
                     exc |-> "none", id |-> self]
       ELSE Raised(h, "NotImplementedError")

\* ParamDict._prototype
_prototype(h, self, other, op) ==
    LET d == h[self]
    IN IF IsNumber(other)
       THEN Returned(h, ParamDict(d.keys,
                [k \in KeySet(d) |-> Cpu(TensorScalarOp(op, d.item[k], other.v))]))
       ELSE IF IsDict(other)
       THEN LET o == h[other.id]
            IN IF \E k \in KeySet(d) : k \notin KeySet(o)
               THEN Raised(h, "KeyError")
               ELSE Returned(h, ParamDict(d.keys,
                        [k \in KeySet(d) |->
                            TensorOp(op, Cpu(d.item[k]), Cpu(o.item[k]))]))
       ELSE Raised(h, "NotImplementedError")

\* an __add__ that passes operator.mul
__add__AsMul(h, self, other) == _prototype(h, self, other, "mul")

\* ParamDict.__add__
__add__(h, self, other) == _prototype(h, self, other, "add")

\* ParamDict.__rmul__ and __mul__
__mul__(h, self, other) == _prototype(h, self, other, "mul")

\* a __truediv__ that accepts instances only
__truediv__MapOnly(h, self, other) ==
    IF IsDict(other) THEN _prototype(h, self, other, "truediv")
    ELSE Raised(h, "NotImplementedError")

\* ParamDict.__truediv__
__truediv__(h, self, other) == _prototype(h, self, other, "truediv")

\* a __neg__ that moves the values to the host, as _prototype does
__neg__OnHost(h, self) ==
    LET d == h[self]
    IN Returned(h, ParamDict(d.keys,
                    [k \in KeySet(d) |-> Cpu(TensorNeg(d.item[k]))]))

\* ParamDict.__neg__
__neg__(h, self) ==
    LET d == h[self]
    IN Returned(h, ParamDict(d.keys, [k \in KeySet(d) |-> TensorNeg(d.item[k])]))

\* other.__neg__() for the operand of __rsub__: a ParamDict negates into a
\* new instance, a number and a tensor negate to a number and a tensor, and a
\* str has no __neg__
NegOperand(h, other) ==
    CASE other.kind = "map" ->
            LET r == __neg__(h, other.id)
            IN [heap |-> r.heap, exc |-> "none", arg |-> MapArg(r.id)]
      [] other.kind = "int" ->
            [heap |-> h, exc |-> "none",
             arg |-> IF IsZero(other.v) THEN other ELSE [other EXCEPT !.v = FNeg(@)]]
      [] other.kind \in {"float", "tensor"} ->
            [heap |-> h, exc |-> "none", arg |-> [other EXCEPT !.v = FNeg(@)]]
      [] OTHER -> [heap |-> h, exc |-> "AttributeError", arg |-> other]

\* an __rsub__ with the reflected meaning, other - self := other + (-self)
__sub__Reflected(h, self, other) ==
    IF other.kind = "map"
    THEN LET n == __neg__(h, self)
         IN __add__(n.heap, other.id, MapArg(n.id))
    ELSE Raised(h, "NotImplementedError")

\* an __rsub__ that forgets to negate: a - b := a + b
__sub__NoNeg(h, self, other) ==
    IF other.kind = "str" THEN Raised(h, "AttributeError")
    ELSE __add__(h, self, other)

\* ParamDict.__rsub__ and __sub__:  a - b := a + (-b)
__sub__(h, self, other) ==
    LET n == NegOperand(h, other)
    IN IF n.exc # "none" THEN Raised(h, n.exc)
       ELSE __add__(n.heap, self, n.arg)

(***************************************************************************)
(* The calls a training loop makes on ParamDict instances                  *)
(***************************************************************************)

\* the weights the initial instances are built from, by key
RowA == [w1 |-> Tensor(F(2), "cuda"), w2 |-> Tensor(F(4), "cpu")]
RowsB ==
    { [w1 |-> Tensor(F(1), "cpu"), w2 |-> Tensor(F(1), "cuda")],
      [w1 |-> Tensor(F(33554432), "cpu"), w2 |-> Tensor(F(3), "cuda")] }

\* key orders of the second initial instance: the keys of the first in
\* another order, and a proper subset of them
KeySeqsB == {<<"w2", "w1">>, <<"w1">>}

\* dict(row) restricted to the keys ks, in that order
FromRow(ks, r) == ParamDict(ks, [k \in {ks[i] : i \in 1..Len(ks)} |-> r[k]])

WeightsA == {FromRow(<<"w1", "w2">>, RowA)}
WeightsB == {FromRow(ks, r) : ks \in KeySeqsB, r \in RowsB}

\* the Python numbers passed as `other`
Numbers == {IntArg(42)}

\* operands that are neither a number nor a dict
Unsupported == {StrArg, TensorArg(F(1))}

Operands(h) == {MapArg(i) : i \in 1..Len(h)} \cup Numbers \cup Unsupported

InitMade == [op |-> "init", self |-> 0, other |-> NoArg]
NoCall == [op |-> "none", self |-> 0, other |-> NoArg, exc |-> "none", id |-> 0]

\* the record of the call that constructed each instance a call allocated:
\* __rsub__ on a ParamDict operand first allocates the negated operand
MadeBy(op, self, other, h, r) ==
    LET new == Len(r.heap) - Len(h)
        this == [op |-> op, self |-> self, other |-> other]
        temp == [op |-> "neg", self |-> other.id, other |-> NoArg]
    IN IF new = 0 THEN <<>>
       ELSE IF new = 2 THEN <<temp, this>>
       ELSE IF r.exc = "none" THEN <<this>>
       ELSE <<temp>>

\* the whole effect of one call self <op> other with outcome r
Do(op, self, other, r) ==
    /\ heap' = r.heap
    /\ made' = made \o MadeBy(op, self, other, heap, r)
    /\ ncalls' = ncalls + 1
    /\ call' = [op |-> op, self |-> self, other |-> other,
                exc |-> r.exc, id |-> r.id]
    /\ UNCHANGED <<metervars, schedvars>>

Add ==
    /\ ncalls < MaxCalls
    /\ \E self \in 1..Len(heap) : \E other \in Operands(heap) :
         \E r \in {__add__(heap, self, other)} : Do("add", self, other, r)

Mul ==
    /\ ncalls < MaxCalls
    /\ \E self \in 1..Len(heap) : \E other \in Operands(heap) :
         \E r \in {__mul__(heap, self, other)} : Do("mul", self, other, r)

Div ==
    /\ ncalls < MaxCalls
    /\ \E self \in 1..Len(heap) : \E other \in Operands(heap) :
         \E r \in {__truediv__(heap, self, other)} : Do("truediv", self, other, r)

Sub ==
    /\ ncalls < MaxCalls
    /\ \E self \in 1..Len(heap) : \E other \in Operands(heap) :
         \E r \in {__sub__(heap, self, other)} : Do("sub", self, other, r)

Neg ==
    /\ ncalls < MaxCalls
    /\ \E self \in 1..Len(heap) :
         \E r \in {__neg__(heap, self)} : Do("neg", self, NoArg, r)

(***************************************************************************)
(* AverageMeter                                                            *)
(***************************************************************************)

\* at most this many update calls between two resets
MaxUpdates == 3

\* the values and weights passed to update(val, n)
MeterVals == {0 - 1, 2, 5}
MeterWeights == {0, 1, 2}

RECURSIVE Gcd(_, _)
Gcd(a, b) == IF b = 0 THEN a ELSE Gcd(b, a % b)

Abs(a) == IF a < 0 THEN 0 - a ELSE a

\* a Python number as the quotient num / den in lowest terms, den > 0; the
\* float a / b is the double nearest to that quotient
PyNumber(a, b) ==
    LET g == Gcd(Abs(a), b)
    IN [num |-> a \div g, den |-> b \div g]

\* a / b on two ints, b > 0
PyTrueDiv(a, b) == PyNumber(a, b)

\* AverageMeter.reset: the fields after it
reset == [val |-> 0, avg |-> PyNumber(0, 1), sum |-> 0, count |-> 0,
          exc |-> "none"]

\* an update that adds val, not val * n, to sum
updateUnweighted(m, v, n) ==
    LET s == m.sum + v
        c == m.count + n
    IN IF c = 0
       THEN [val |-> v, avg |-> m.avg, sum |-> s, count |-> c,
             exc |-> "ZeroDivisionError"]
       ELSE [val |-> v, avg |-> PyTrueDiv(s, c), sum |-> s, count |-> c,
             exc |-> "none"]

\* AverageMeter.update(val, n) on the fields m: the fields after it; the
\* division raises when count is 0, after val, sum and count were assigned
update(m, v, n) ==
    LET s == m.sum + v * n
        c == m.count + n
    IN IF c = 0
       THEN [val |-> v, avg |-> m.avg, sum |-> s, count |-> c,
             exc |-> "ZeroDivisionError"]
       ELSE [val |-> v, avg |-> PyTrueDiv(s, c), sum |-> s, count |-> c,
             exc |-> "none"]

Meter == [val |-> val, avg |-> avg, sum |-> sum, count |-> count,
          exc |-> meter_exc]

SetMeter(m) ==
    /\ val' = m.val
    /\ avg' = m.avg
    /\ sum' = m.sum
    /\ count' = m.count
    /\ meter_exc' = m.exc

Reset ==
    /\ SetMeter(reset)
    /\ hist' = <<>>
    /\ UNCHANGED <<pdvars, schedvars>>

Update ==
    /\ Len(hist) < MaxUpdates
    /\ \E v \in MeterVals : \E n \in MeterWeights :
          /\ SetMeter(update(Meter, v, n))
          /\ hist' = Append(hist, <<v, n>>)
    /\ UNCHANGED <<pdvars, schedvars>>

(***************************************************************************)
(* get_scheduler                                                           *)
(***************************************************************************)

\* the values of args.scheduler, t_total, args.num_warmup_steps and
\* args.step_gamma the factory is called with
SchedulerNames ==
    {"ReduceLROnPlateau", "CosineAnnealingLR", "linear_schedule_with_warmup",
     "cosine_schedule_with_warmup", "StepLR", "ExponentialLR", "none"}
TotalSteps == {100, 1000, 5000}
WarmupSteps == {0, 10, 500}
StepGammas == {"0.1", "0.5"}

\* a scheduler object: its class or factory and the arguments it was built
\* from (0 and "" for those it does not take); None has kind "None"
Scheduler(kind, steps, warmup, gamma) ==
    [kind |-> kind, steps |-> steps, warmup |-> warmup, gamma |-> gamma]
None == Scheduler("None", 0, 0, "")
NotCalled == Scheduler("unset", 0, 0, "")

\* get_scheduler(args, optimizer, t_total): an `if` for ReduceLROnPlateau,
\* then a separate if / elif chain whose else assigns None
get_scheduler(args, t_total) ==
    LET first == IF args.scheduler = "ReduceLROnPlateau"
                 THEN Scheduler("ReduceLROnPlateau", 0, 0, "")
                 ELSE NotCalled
    IN IF args.scheduler = "CosineAnnealingLR"
       THEN Scheduler("CosineAnnealingLR", t_total, 0, "")
       ELSE IF args.scheduler = "linear_schedule_with_warmup"
       THEN Scheduler("linear_schedule_with_warmup", t_total,
                      args.num_warmup_steps, "")
       ELSE IF args.scheduler = "cosine_schedule_with_warmup"
       THEN Scheduler("cosine_schedule_with_warmup", t_total,
                      args.num_warmup_steps, "")
       ELSE IF args.scheduler = "StepLR"
       THEN Scheduler("StepLR", 1, 0, args.step_gamma)
       ELSE None  \* overwrites `first`

GetScheduler ==
    /\ \E name \in SchedulerNames : \E t \in TotalSteps :
       \E w \in WarmupSteps : \E g \in StepGammas :
          LET args == [scheduler |-> name, num_warmup_steps |-> w,
                       step_gamma |-> g]
          IN /\ sched_args' = [args |-> args, t_total |-> t]
             /\ scheduler' = get_scheduler(args, t)
    /\ UNCHANGED <<pdvars, metervars>>

(***************************************************************************)
(* Specifications                                                          *)
(***************************************************************************)

InitPD ==
    /\ \E A \in WeightsA : \E B \in WeightsB : heap = <<A, B>>
    /\ made = <<InitMade, InitMade>>
    /\ ncalls = 0
    /\ call = NoCall

\* no ParamDict exists
IdlePD ==
    /\ heap = <<>>
    /\ made = <<>>
    /\ ncalls = 0
    /\ call = NoCall

\* AverageMeter.__init__ calls reset
InitMeter ==
    /\ val = reset.val
    /\ avg = reset.avg
    /\ sum = reset.sum
    /\ count = reset.count
    /\ meter_exc = reset.exc
    /\ hist = <<>>

InitSched ==
    /\ sched_args = [args |-> [scheduler |-> "", num_warmup_steps |-> 0,
                               step_gamma |-> ""], t_total |-> 0]
    /\ scheduler = NotCalled

Init == InitPD /\ InitMeter /\ InitSched

Next == Add \/ Mul \/ Div \/ Sub \/ Neg

\* the ParamDict arithmetic
Spec == Init /\ [][Next]_vars

InitMeterOnly == IdlePD /\ InitMeter /\ InitSched

NextMeter == Reset \/ Update

\* one AverageMeter
SpecMeter == InitMeterOnly /\ [][NextMeter]_vars

NextSched == GetScheduler

\* calls of get_scheduler
SpecSched == InitMeterOnly /\ [][NextSched]_vars

(***************************************************************************)
(* Properties of the ParamDict arithmetic                                  *)
(***************************************************************************)

Binary == {"add", "sub", "mul", "truediv"}

\* the value of the operand `other` that meets self[k]
OtherAt(c, k) ==
    IF c.other.kind = "map" THEN heap[c.other.id].item[k].v ELSE c.other.v

SameKeys(i, j) == KeySet(heap[i]) = KeySet(heap[j])

OnHost(d) == \A k \in KeySet(d) : d.item[k].dev = "cpu"

\* x - y on float32 values
FSub(x, y) == FAdd(x, FNeg(y))

\* the real number x + y is itself a float32 (the addition does not round)
ExactSum(x, y) ==
    /\ IsFinite(x)
    /\ IsFinite(y)
    /\ \/ IsZero(x)
       \/ IsZero(y)
       \/ LET lo == IF x.e <= y.e THEN x.e ELSE y.e
              top == Max(BitLen(x.m) + x.e, BitLen(y.m) + y.e)
          IN /\ top - lo <= 30
             /\ LET X == x.m * Pow2(x.e - lo) * (1 - 2 * x.s)
                    Y == y.m * Pow2(y.e - lo) * (1 - 2 * y.s)
                    c == Canon(0, IF X + Y < 0 THEN 0 - (X + Y) ELSE X + Y, lo)
                IN /\ BitLen(c.m) <= Precision
                   /\ BitLen(c.m) + c.e <= MaxExp

\* C1: a call leaves every existing instance as it was (keys, key order,
\* values and their placement), and a call that returns, returns an instance
\* that did not exist before, so one distinct from both operands.
C1_OperandsUnchanged ==
    [][ /\ Len(heap') >= Len(heap)
        /\ \A i \in 1..Len(heap) : heap'[i] = heap[i]
        /\ (ncalls' # ncalls /\ call'.exc = "none") =>
              /\ call'.id > Len(heap)
              /\ call'.id # call'.self
              /\ call'.id # call'.other.id ]_vars

\* a second call in a row has combined two instances and returned
C1_Witness ==
    /\ ncalls = 2
    /\ call.op \in Binary
    /\ call.other.kind = "map"
    /\ call.exc = "none"
    /\ heap[call.id] # heap[call.self]

\* C2: a binary operation between two instances whose key sets differ raises
\* KeyError and returns nothing, whichever side has the extra key.
C2_KeyMismatchRaises ==
    (/\ call.op \in Binary
     /\ call.other.kind = "map"
     /\ ~SameKeys(call.self, call.other.id))
        => call.exc = "KeyError" /\ call.id = 0

\* C3: add returns the keys of self in the order of self, each value being
\* self[k] + s for a number s and self[k] + other[k] for an instance with
\* the same key set.
C3_AddResult ==
    (/\ call.op = "add"
     /\ \/ IsNumber(call.other)
        \/ call.other.kind = "map" /\ SameKeys(call.self, call.other.id))
        => /\ call.exc = "none"
           /\ heap[call.id].keys = heap[call.self].keys
           /\ \A k \in KeySet(heap[call.self]) :
                 heap[call.id].item[k].v =
                     FAdd(heap[call.self].item[k].v, OtherAt(call, k))

\* add has returned for the integer 42, and for an instance whose keys are
\* in another order
C3_Witness ==
    /\ \E i \in 1..Len(heap) :
          /\ made[i].op = "add"
          /\ made[i].other = IntArg(42)
          /\ heap[made[i].self].item["w1"].v = F(2)
          /\ heap[i].item["w1"].v = F(44)
    /\ \E i \in 1..Len(heap) :
          /\ made[i].op = "add"
          /\ made[i].other.kind = "map"
          /\ Len(heap[i].keys) = 2
          /\ heap[made[i].other.id].keys # heap[made[i].self].keys

\* C4: for instances with the same key set, A - B is A + (-B): it returns the
\* keys of A in the order of A, each value being A[k] - B[k].
C4_SubResult ==
    (/\ call.op = "sub"
     /\ call.other.kind = "map"
     /\ SameKeys(call.self, call.other.id))
        => /\ call.exc = "none"
           /\ made[call.id - 1] = [op |-> "neg", self |-> call.other.id,
                                   other |-> NoArg]
           /\ LET r == __add__(heap, call.self, MapArg(call.id - 1))
              IN r.exc = "none" /\ heap[call.id] = r.heap[r.id]
           /\ heap[call.id].keys = heap[call.self].keys
           /\ \A k \in KeySet(heap[call.self]) :
                 heap[call.id].item[k].v =
                     FSub(heap[call.self].item[k].v, OtherAt(call, k))

\* {w1: 2, w2: 4} - {w1: 1, w2: 1} has returned {w1: 1, w2: 3}
C4_Witness ==
    /\ call.op = "sub"
    /\ call.exc = "none"
    /\ call.other.kind = "map"
    /\ heap[call.self].keys = <<"w1", "w2">>
    /\ heap[call.self].item["w1"].v = F(2)
    /\ heap[call.self].item["w2"].v = F(4)
    /\ heap[call.other.id].item["w1"].v = F(1)
    /\ heap[call.other.id].item["w2"].v = F(1)
    /\ heap[call.id].keys = <<"w1", "w2">>
    /\ heap[call.id].item["w1"].v = F(1)
    /\ heap[call.id].item["w2"].v = F(3)

\* C5: a binary operation whose operand is neither a number nor an instance
\* raises NotImplementedError, and no other exception.
C5_UnsupportedRaises ==
    (call.op \in Binary /\ call.other.kind \in {"str", "tensor"})
        => call.exc = "NotImplementedError" /\ call.id = 0

\* C6: every value of an instance returned by add, sub, mul or truediv is
\* host-resident, and every value of an instance returned by unary minus is
\* where the corresponding value of its operand is.
C6_Placement ==
    \A i \in 1..Len(heap) :
        /\ made[i].op \in Binary => OnHost(heap[i])
        /\ made[i].op = "neg" =>
              /\ heap[i].keys = heap[made[i].self].keys
              /\ \A k \in KeySet(heap[i]) :
                    heap[i].item[k].dev = heap[made[i].self].item[k].dev

\* a binary operation on an instance with an accelerator value has returned,
\* and so has the unary minus of such an instance, one after the other
C6_Witness ==
    /\ ncalls = 2
    /\ \E i \in 1..Len(heap) :
          /\ made[i].op \in {"add", "mul", "truediv"}
          /\ ~OnHost(heap[made[i].self])
    /\ \E i \in 1..Len(heap) :
          /\ made[i].op = "neg"
          /\ made[i - 1].op # "init"
          /\ ~OnHost(heap[i])

\* C7 as stated: truediv by an instance with the same key set returns
\* self[k] / other[k] for every key, and truediv by a number returns nothing.
C7_DivideMapOnly ==
    /\ (/\ call.op = "truediv"
        /\ call.other.kind = "map"
        /\ SameKeys(call.self, call.other.id))
          => /\ call.exc = "none"
             /\ \A k \in KeySet(heap[call.self]) :
                   heap[call.id].item[k].v =
                       FDiv(heap[call.self].item[k].v, OtherAt(call, k))
    /\ (call.op = "truediv" /\ IsNumber(call.other)) => call.exc # "none"

\* C7 amended: truediv takes the same two branches as add.  By an instance
\* with the same key set it returns self[k] / other[k] for every key, and by
\* a number s it returns self[k] / s for every key; both results have the
\* keys of self in the order of self, host-resident.
C7_DivideResult ==
    (/\ call.op = "truediv"
     /\ \/ IsNumber(call.other)
        \/ call.other.kind = "map" /\ SameKeys(call.self, call.other.id))
        => /\ call.exc = "none"
           /\ heap[call.id].keys = heap[call.self].keys
           /\ OnHost(heap[call.id])
           /\ \A k \in KeySet(heap[call.self]) :
                 heap[call.id].item[k].v =
                     FDiv(heap[call.self].item[k].v, OtherAt(call, k))

\* {w1: 2, w2: 4} / 42 has returned an instance, and w2 is 4/42 rounded to
\* float32 (12782641 * 2^-27)
C7_Witness ==
    /\ call.op = "truediv"
    /\ call.other = IntArg(42)
    /\ call.exc = "none"
    /\ heap[call.self].keys = <<"w1", "w2">>
    /\ heap[call.self].item["w2"].v = F(4)
    /\ heap[call.id].item["w2"].v = Canon(0, 12782641, 0 - 27)

\* the instances R = (A + B) - B with A and B of the same key set, and the
\* A and B of such an R
Inverses ==
    { r \in 1..Len(heap) :
        /\ made[r].op = "sub"
        /\ made[r].other.kind = "map"
        /\ made[made[r].self].op = "add"
        /\ made[made[r].self].other = made[r].other
        /\ SameKeys(made[made[r].self].self, made[r].other.id) }
InvA(r) == heap[made[made[r].self].self]
InvB(r) == heap[made[r].other.id]

\* C8 as stated: (A + B) - B equals A: the same keys in the same order and,
\* for every key, the same value.
C8_InverseLaw ==
    \A r \in Inverses :
        /\ heap[r].keys = InvA(r).keys
        /\ \A k \in KeySet(InvA(r)) :
              FEq(heap[r].item[k].v, InvA(r).item[k].v)

\* C8 amended: (A + B) - B has the keys of A in the order of A, its value at
\* k is the float32 difference of the float32 sum A[k] + B[k] and B[k], and
\* that equals A[k] wherever the sum A[k] + B[k] is exact (is itself a
\* float32).
C8_InverseWhereExact ==
    \A r \in Inverses :
        /\ heap[r].keys = InvA(r).keys
        /\ \A k \in KeySet(InvA(r)) :
              /\ heap[r].item[k].v =
                    FSub(FAdd(InvA(r).item[k].v, InvB(r).item[k].v),
                         InvB(r).item[k].v)
              /\ ExactSum(InvA(r).item[k].v, InvB(r).item[k].v)
                    => FEq(heap[r].item[k].v, InvA(r).item[k].v)

\* ({w1: 2, w2: 4} + B) - B has returned for a B whose keys are in another
\* order, every sum was exact, and the result equals the first operand
C8_Witness ==
    \E r \in Inverses :
        /\ InvA(r).keys # InvB(r).keys
        /\ InvA(r).item["w1"].v = F(2)
        /\ \A k \in KeySet(InvA(r)) :
              /\ ExactSum(InvA(r).item[k].v, InvB(r).item[k].v)
              /\ heap[r].item[k].v = InvA(r).item[k].v

(***************************************************************************)
(* Properties of the AverageMeter and of get_scheduler                     *)
(***************************************************************************)

RECURSIVE SumN(_)
SumN(h) == IF h = <<>> THEN 0 ELSE SumN(SubSeq(h, 1, Len(h) - 1)) + h[Len(h)][2]

RECURSIVE SumValN(_)
SumValN(h) ==
    IF h = <<>> THEN 0
    ELSE SumValN(SubSeq(h, 1, Len(h) - 1)) + h[Len(h)][1] * h[Len(h)][2]

\* C9: after a reset and updates (val_i, n_i) with every n_i >= 1, no update
\* raised, count is the sum of the n_i, sum is the sum of the val_i * n_i,
\* val is the last val_i, count is not 0 and avg * count = sum; right after
\* a reset val, avg, sum and count are 0.
C9_Meter ==
    /\ (\A i \in 1..Len(hist) : hist[i][2] >= 1) =>
          /\ meter_exc = "none"
          /\ count = SumN(hist)
          /\ sum = SumValN(hist)
          /\ hist # <<>> =>
                /\ val = hist[Len(hist)][1]
                /\ count > 0
                /\ avg.den > 0
                /\ avg.num * count = sum * avg.den
    /\ hist = <<>> =>
          /\ val = 0
          /\ avg.num = 0
          /\ sum = 0
          /\ count = 0

\* after update(5, 2), update(-1, 1), update(2, 2): count 5, sum 13, avg 13/5
C9_Witness ==
    /\ hist = << <<5, 2>>, <<0 - 1, 1>>, <<2, 2>> >>
    /\ val = 2
    /\ count = 5
    /\ sum = 13
    /\ avg = [num |-> 13, den |-> 5]

\* C10: for each of the five names get_scheduler returns the scheduler that
\* name selects, built from the arguments, and for any other name it returns
\* None.
C10_SchedulerForEachName ==
    LET name == sched_args.args.scheduler
    IN scheduler # NotCalled =>
         /\ name \in {"ReduceLROnPlateau", "CosineAnnealingLR",
                      "linear_schedule_with_warmup",
                      "cosine_schedule_with_warmup", "StepLR"}
               => scheduler # None /\ scheduler.kind = name
         /\ scheduler = None =>
               name \notin {"ReduceLROnPlateau", "CosineAnnealingLR",
                            "linear_schedule_with_warmup",
                            "cosine_schedule_with_warmup", "StepLR"}

====
